---- MODULE Spec2Model ----
(***************************************************************************)
(* The input manager of cocos/core/platform/event-manager/input-manager.ts *)
(* as a state machine: the slot allocator (_indexBitsUsed,                 *)
(* _touchesIntegerDict, _touches), the previous-touch pool                 *)
(* (_preTouchPool), and the per-frame pass frameDispatchEvents over the    *)
(* samples polled from the four input sources.                             *)
(***************************************************************************)
EXTENDS Integers, Sequences, FiniteSets, TLC

\* ------------------------------------------------------------------ bounds
\* Size of the slot pool.  The source fixes _maxTouches at 8 (line 66); the
\* same code is checked here for a smaller pool.
MaxTouches == 2
\* Touch identifiers the platform hands in: 0 .. MaxId (0 is also the mouse).
MaxId == 2
\* frameStartTime runs over 0 .. MaxTime.
MaxTime == 2
\* The largest raw coordinate of a sample.
MaxCoord == 1
\* Most touches in the changedTouches of one touch sample.
MaxChanged == 2
\* Capacity of the previous-touch pool: 50 in the source (lines 300, 304).
PoolCapacity == 1
\* Most samples queued in one frame of the frame specification.
MaxQueued == 2

\* ------------------------------------------------------- program constants
\* macro.TOUCH_TIMEOUT (line 43), in the time unit of frameStartTime.
TOUCH_TIMEOUT == 1
\* The view's _devicePixelRatio read by _getViewPixelRatio (line 314).
DevicePixelRatio == 2
\* The code of the "slot pool exhausted" diagnostic (line 179).
LogSlotExhausted == 2300
\* What _getUnUsedIndex returns when no slot is available (line 403).
NoIndex == -1

Slots == 0 .. (MaxTouches - 1)
IDs == 0 .. MaxId
Times == 0 .. MaxTime

\* ------------------------------------------------------------ system events
TOUCH_START == "touch-start"
TOUCH_MOVE == "touch-move"
TOUCH_END == "touch-end"
TOUCH_CANCEL == "touch-cancel"
MOUSE_DOWN == "mouse-down"
MOUSE_MOVE == "mouse-move"
MOUSE_UP == "mouse-up"
MOUSE_WHEEL == "mouse-wheel"
KEY_DOWN == "keydown"
KEY_UP == "keyup"
DEVICEMOTION == "devicemotion"
\* A sample type none of the switch statements names (their default branch).
OTHER_TYPE == "other"

TouchTypes == {TOUCH_START, TOUCH_MOVE, TOUCH_END, TOUCH_CANCEL}

VARIABLES
    indexBitsUsed,        \* _indexBitsUsed: bit i set = slot i occupied
    touchesIntegerDict,   \* _touchesIntegerDict: touch id -> slot index
    touches,              \* _touches: slot index -> Touch
    preTouchPool,         \* _preTouchPool
    preTouchPoolPointer,  \* _preTouchPoolPointer
    preTouchPoint,        \* _preTouchPoint
    prevMousePoint,       \* _prevMousePoint
    frameStartTime,       \* legacyCC.game.frameStartTime
    ENABLE_MULTI_TOUCH,   \* macro.ENABLE_MULTI_TOUCH
    passDue,              \* the frame has started, its pass has not run yet
    polled,               \* the samples the last pass polled, per source
    before,               \* the manager's state when the last pass started
    handled,              \* the samples the last pass handled, in order
    dispatched,           \* the events the last pass gave to eventManager
    logged,               \* the diagnostics the last pass gave to logID
    begins,               \* the Begin touches handled since construction
    released,             \* a slot was released and no Begin came since
    evicted               \* identifiers whose slot a reclamation took

vars == <<indexBitsUsed, touchesIntegerDict, touches, preTouchPool,
          preTouchPoolPointer, preTouchPoint, prevMousePoint, frameStartTime,
          ENABLE_MULTI_TOUCH, passDue, polled, before, handled, dispatched,
          logged, begins, released, evicted>>

\* ------------------------------------------------------------------ helpers
Pow2(n) == 2 ^ n

\* (mask >> i) & 1
BitAt(mask, i) == (mask \div Pow2(i)) % 2

\* mask | (1 << i)
BitSet(mask, i) == IF BitAt(mask, i) = 1 THEN mask ELSE mask + Pow2(i)

\* mask & ~(1 << i)
BitClear(mask, i) == IF BitAt(mask, i) = 1 THEN mask - Pow2(i) ELSE mask

\* delete dict[key]
DictDelete(dict, key) == [k \in (DOMAIN dict) \ {key} |-> dict[k]]

\* dict[key] = value
DictPut(dict, key, value) ==
    [k \in (DOMAIN dict) \cup {key} |-> IF k = key THEN value ELSE dict[k]]

\* The keys of a dictionary in the order of a for-in loop over integer keys.
RECURSIVE KeysAscending(_)
KeysAscending(keys) ==
    IF keys = {} THEN <<>>
    ELSE LET least == CHOOSE k \in keys : \A j \in keys : k <= j
         IN <<least>> \o KeysAscending(keys \ {least})

\* ------------------------------------------------------------- class Touch
\* new Touch(x, y, id): the point is set, nothing has modified it yet.
NewTouch(x, y, id) ==
    [id |-> id, point |-> <<x, y>>, prevPoint |-> <<0, 0>>, lastModified |-> 0]

\* touch.setPoint(p): stamps the touch with the frame's start time.
TouchSetPoint(touch, p, now) ==
    [touch EXCEPT !.point = p, !.lastModified = now]

\* touch.setPrevPoint(p): stamps the touch with the frame's start time.
TouchSetPrevPoint(touch, p, now) ==
    [touch EXCEPT !.prevPoint = p, !.lastModified = now]

\* ------------------------------------------------ the manager's own state
\* The fields of the manager that the handlers of touches write.
Own(m) ==
    [indexBitsUsed |-> m.indexBitsUsed,
     touchesIntegerDict |-> m.touchesIntegerDict,
     touches |-> m.touches,
     preTouchPool |-> m.preTouchPool,
     preTouchPoolPointer |-> m.preTouchPoolPointer]

\* eventManager.dispatchEvent(event): the listeners see the event and the
\* manager as it is at the call.
DispatchEvent(m, event) ==
    [m EXCEPT !.dispatched = Append(@, [event |-> event, own |-> Own(m)])]

\* logID(code, arg)
LogID(m, code, arg) ==
    [m EXCEPT !.logged = Append(@, [code |-> code, arg |-> arg])]

\* ---------------------------------------------------------- slot allocator
\* _removeUsedIndexBit(index)
RemoveUsedIndexBit(m, index) ==
    IF index < 0 \/ index >= MaxTouches THEN m
    ELSE [m EXCEPT !.indexBitsUsed = BitClear(@, index)]

\* The loop with a stale slot taken but its identifier left in the mapping.
RECURSIVE ScanUnUsedIndexKeepsId(_, _, _)
ScanUnUsedIndexKeepsId(m, temp, i) ==
    IF i >= MaxTouches THEN [m |-> m, index |-> NoIndex]
    ELSE IF temp % 2 = 0
    THEN [m |-> [m EXCEPT !.indexBitsUsed = BitSet(@, i)], index |-> i]
    ELSE LET touch == m.touches[i]
         IN IF m.now - touch.lastModified > TOUCH_TIMEOUT
            THEN [m |-> RemoveUsedIndexBit(m, i), index |-> i]
            ELSE ScanUnUsedIndexKeepsId(m, temp \div 2, i + 1)

\* The loop of _getUnUsedIndex from index i on; temp is the mask shifted
\* right i times.  The result is the manager and the index returned.
RECURSIVE ScanUnUsedIndex(_, _, _)
ScanUnUsedIndex(m, temp, i) ==
    IF i >= MaxTouches THEN [m |-> m, index |-> NoIndex]
    ELSE IF temp % 2 = 0
    THEN [m |-> [m EXCEPT !.indexBitsUsed = BitSet(@, i)], index |-> i]
    ELSE LET touch == m.touches[i]
         IN IF m.now - touch.lastModified > TOUCH_TIMEOUT
            THEN [m |-> [RemoveUsedIndexBit(m, i) EXCEPT
                            !.touchesIntegerDict = DictDelete(@, touch.id)],
                  index |-> i]
            ELSE ScanUnUsedIndex(m, temp \div 2, i + 1)

\* _getUnUsedIndex()
GetUnUsedIndex(m) == ScanUnUsedIndex(m, m.indexBitsUsed, 0)

\* _getUsefulTouches(): one entry per key of the dictionary, in key order.
GetUsefulTouches(m) ==
    LET keys == KeysAscending(DOMAIN m.touchesIntegerDict)
    IN [k \in 1 .. Len(keys) |-> m.touches[m.touchesIntegerDict[keys[k]]]]

\* The last argument of new EventTouch(...): all touches or the changed ones.
EventTouches(m, handleTouches) ==
    IF m.multi THEN GetUsefulTouches(m) ELSE handleTouches

\* new EventTouch(handleTouches, false, type, allTouches)
EventTouch(m, type, handleTouches) ==
    [type |-> type, touches |-> handleTouches,
     allTouches |-> EventTouches(m, handleTouches)]

\* -------------------------------------------------- the previous-touch pool
\* The loops of _getPreTouch and _setPreTouch: the highest index at or below
\* i whose entry has the identifier, 0 when there is none (1-based).
RECURSIVE FindInPool(_, _, _)
FindInPool(pool, id, i) ==
    IF i < 1 THEN 0
    ELSE IF pool[i].id = id THEN i
    ELSE FindInPool(pool, id, i - 1)

\* What is ever read of a Touch kept in the pool: getID (lines 277, 293)
\* and getLocation (line 365).
Pooled(touch) == [id |-> touch.id, point |-> touch.point]

\* _getPreTouch(touch) with the pool never searched.
GetPreTouchOwn(m, touch) == Pooled(touch)

\* _getPreTouch(touch)
GetPreTouch(m, touch) ==
    LET i == FindInPool(m.preTouchPool, touch.id, Len(m.preTouchPool))
    IN IF i > 0 THEN m.preTouchPool[i] ELSE Pooled(touch)

\* _setPreTouch(touch) with an entry of the same identifier left as it is.
SetPreTouchKeeps(m, touch) ==
    LET pool == m.preTouchPool
        i == FindInPool(pool, touch.id, Len(pool))
    IN IF i > 0 THEN m
       ELSE IF Len(pool) <= PoolCapacity
       THEN [m EXCEPT !.preTouchPool = Append(pool, Pooled(touch))]
       ELSE [m EXCEPT
                !.preTouchPool =
                    [pool EXCEPT ![m.preTouchPoolPointer + 1] = Pooled(touch)],
                !.preTouchPoolPointer =
                    (m.preTouchPoolPointer + 1) % PoolCapacity]

\* _setPreTouch(touch)
SetPreTouch(m, touch) ==
    LET pool == m.preTouchPool
        i == FindInPool(pool, touch.id, Len(pool))
    IN IF i > 0
       THEN [m EXCEPT !.preTouchPool = [pool EXCEPT ![i] = Pooled(touch)]]
       ELSE IF Len(pool) <= PoolCapacity
       THEN [m EXCEPT !.preTouchPool = Append(pool, Pooled(touch))]
       ELSE [m EXCEPT
                !.preTouchPool =
                    [pool EXCEPT ![m.preTouchPoolPointer + 1] = Pooled(touch)],
                !.preTouchPoolPointer =
                    (m.preTouchPoolPointer + 1) % PoolCapacity]

\* -------------------------------------------------------- samples to touches
\* _getViewPixelRatio()
GetViewPixelRatio == DevicePixelRatio

\* _getTouch(inputEvent): the pseudo-touch of a mouse sample, identifier 0.
GetTouch(m, inputEvent) ==
    LET x == inputEvent.x * GetViewPixelRatio
        y == inputEvent.y * GetViewPixelRatio
        touch == TouchSetPrevPoint(NewTouch(x, y, 0), m.preTouchPoint, m.now)
    IN [m |-> [m EXCEPT !.preTouchPoint = <<x, y>>], touch |-> touch]

\* _getMouseEvent(inputEvent); button and movement pass through unread.
GetMouseEvent(m, inputEvent) ==
    LET x == inputEvent.x * GetViewPixelRatio
        y == inputEvent.y * GetViewPixelRatio
    IN [m |-> [m EXCEPT !.prevMousePoint = <<x, y>>],
        event |-> [type |-> inputEvent.type, location |-> <<x, y>>,
                   prevLocation |-> m.prevMousePoint]]

\* The Touch that the body of the loop of _getTouchList makes of touchData:
\* its previous point is that of the pool's entry (lines 357-366).
TouchOfData(m, touchData) ==
    LET x == touchData.x * GetViewPixelRatio
        y == touchData.y * GetViewPixelRatio
    IN TouchSetPrevPoint(
           NewTouch(x, y, touchData.identifier),
           GetPreTouch(m, NewTouch(x, y, touchData.identifier)).point,
           m.now)

\* The rest of the body: the touch is recorded in the pool and its point
\* becomes _preTouchPoint (lines 367-369).
TouchRecorded(m, touch) ==
    [SetPreTouch(m, touch) EXCEPT !.preTouchPoint = touch.point]

\* The loop of _getTouchList from changedTouches[i] on (1-based);
\* TouchListPush is the body once the touch is made, with the break of the
\* single-touch mode.
RECURSIVE TouchListLoop(_, _, _, _)
RECURSIVE TouchListPush(_, _, _, _, _)
TouchListLoop(m, changedTouches, i, touchList) ==
    IF i > Len(changedTouches) THEN [m |-> m, touchList |-> touchList]
    ELSE TouchListPush(m, changedTouches, i, touchList,
                       TouchOfData(m, changedTouches[i]))

TouchListPush(m, changedTouches, i, touchList, touch) ==
    IF ~m.multi
    THEN [m |-> TouchRecorded(m, touch), touchList |-> Append(touchList, touch)]
    ELSE TouchListLoop(TouchRecorded(m, touch), changedTouches, i + 1,
                       Append(touchList, touch))

\* _getTouchList(inputEvent)
GetTouchList(m, inputEvent) ==
    TouchListLoop(m, inputEvent.changedTouches, 1, <<>>)

\* ------------------------------------------------------------ touch handlers
\* The loop of _handleTouchesStart from touches[i] on; handleTouches holds
\* the Touch objects created so far.  StartTaken is the body once
\* _getUnUsedIndex has returned got (lines 178-186).
RECURSIVE StartLoop(_, _, _, _)
RECURSIVE StartTaken(_, _, _, _, _)
\* The loop without the test of the mapping.
StartLoopAlways(m, ts, i, handleTouches) ==
    IF i > Len(ts) THEN [m |-> m, handleTouches |-> handleTouches]
    ELSE StartTaken(GetUnUsedIndex(m), ts, i, handleTouches, m.now)

StartLoop(m, ts, i, handleTouches) ==
    IF i > Len(ts) THEN [m |-> m, handleTouches |-> handleTouches]
    ELSE IF ts[i].id \in DOMAIN m.touchesIntegerDict
    THEN StartLoop(m, ts, i + 1, handleTouches)
    ELSE StartTaken(GetUnUsedIndex(m), ts, i, handleTouches, m.now)

StartTaken(got, ts, i, handleTouches, now) ==
    IF got.index = NoIndex
    THEN StartLoop(LogID(got.m, LogSlotExhausted, got.index), ts, i + 1,
                   handleTouches)
    ELSE LET touch == ts[i]
             curTouch == TouchSetPrevPoint(
                             NewTouch(touch.point[1], touch.point[2], touch.id),
                             touch.prevPoint, now)
         IN StartLoop([got.m EXCEPT
                          !.touches = DictPut(@, got.index, curTouch),
                          !.touchesIntegerDict = DictPut(@, touch.id, got.index)],
                      ts, i + 1, Append(handleTouches, curTouch))

\* The end of _handleTouchesStart with an event of the first touch only.
StartDispatchFirst(r) ==
    IF Len(r.handleTouches) > 0
    THEN DispatchEvent(r.m, EventTouch(r.m, TOUCH_START,
                                       <<r.handleTouches[1]>>))
    ELSE r.m

\* The end of _handleTouchesStart, the loop having left r (lines 189-195).
StartDispatch(r) ==
    IF Len(r.handleTouches) > 0
    THEN DispatchEvent(r.m, EventTouch(r.m, TOUCH_START, r.handleTouches))
    ELSE r.m

\* _handleTouchesStart(touches)
HandleTouchesStart(m, ts) == StartDispatch(StartLoop(m, ts, 1, <<>>))

\* The Touch objects of _touches that handleTouches refers to, as they are
\* when the event is built.
Referred(m, indices) == [k \in 1 .. Len(indices) |-> m.touches[indices[k]]]

\* The loop of _handleTouchesMove from touches[i] on; handleTouches holds
\* the indices of the Touch objects of _touches pushed so far.
RECURSIVE MoveLoop(_, _, _, _)
MoveLoop(m, ts, i, handleTouches) ==
    IF i > Len(ts) THEN [m |-> m, handleTouches |-> handleTouches]
    ELSE LET touch == ts[i]
             touchID == touch.id
         IN IF touchID \notin DOMAIN m.touchesIntegerDict
            THEN MoveLoop(m, ts, i + 1, handleTouches)
            ELSE LET index == m.touchesIntegerDict[touchID]
                 IN IF index \notin DOMAIN m.touches
                    THEN MoveLoop(m, ts, i + 1, handleTouches)
                    ELSE LET moved ==
                                 TouchSetPrevPoint(
                                     TouchSetPoint(m.touches[index],
                                                   touch.point, m.now),
                                     touch.prevPoint, m.now)
                             m1 == [m EXCEPT !.touches[index] = moved]
                         IN MoveLoop(m1, ts, i + 1,
                                     Append(handleTouches, index))

\* The end of _handleTouchesMove without the test of handleTouches.length.
MoveDispatchAlways(r) ==
    DispatchEvent(r.m, EventTouch(r.m, TOUCH_MOVE,
                                  Referred(r.m, r.handleTouches)))

\* The end of _handleTouchesMove, the loop having left r (lines 217-223).
MoveDispatch(r) ==
    IF Len(r.handleTouches) > 0
    THEN DispatchEvent(r.m, EventTouch(r.m, TOUCH_MOVE,
                                       Referred(r.m, r.handleTouches)))
    ELSE r.m

\* _handleTouchesMove(touches)
HandleTouchesMove(m, ts) == MoveDispatch(MoveLoop(m, ts, 1, <<>>))

\* The loop of getSetOfTouchesEndOrCancel from touches[i] on.
RECURSIVE EndOrCancelLoop(_, _, _, _)
EndOrCancelLoop(m, ts, i, handleTouches) ==
    IF i > Len(ts) THEN [m |-> m, handleTouches |-> handleTouches]
    ELSE LET touch == ts[i]
             touchID == touch.id
         IN IF touchID \notin DOMAIN m.touchesIntegerDict
            THEN EndOrCancelLoop(m, ts, i + 1, handleTouches)
            ELSE LET index == m.touchesIntegerDict[touchID]
                 IN IF index \notin DOMAIN m.touches
                    THEN EndOrCancelLoop(m, ts, i + 1, handleTouches)
                    ELSE LET ended ==
                                 TouchSetPrevPoint(
                                     TouchSetPoint(m.touches[index],
                                                   touch.point, m.now),
                                     touch.prevPoint, m.now)
                             m1 == [RemoveUsedIndexBit(m, index) EXCEPT
                                       !.touches[index] = ended,
                                       !.touchesIntegerDict =
                                           DictDelete(@, touchID)]
                         IN EndOrCancelLoop(m1, ts, i + 1,
                                            Append(handleTouches, index))

\* What getSetOfTouchesEndOrCancel returns, its loop having left r.
EndOrCancelSet(r) ==
    [m |-> r.m, handleTouches |-> Referred(r.m, r.handleTouches)]

\* getSetOfTouchesEndOrCancel(touches)
GetSetOfTouchesEndOrCancel(m, ts) ==
    EndOrCancelSet(EndOrCancelLoop(m, ts, 1, <<>>))

\* The end of the two handlers with the pool left as it is.
EndOrCancelDispatchKeeps(r, type) ==
    IF Len(r.handleTouches) > 0
    THEN DispatchEvent(r.m, EventTouch(r.m, type, r.handleTouches))
    ELSE r.m

\* The end of _handleTouchesEnd and of _handleTouchesCancel, r being the set
\* returned: the event is dispatched, then the pool is emptied.
EndOrCancelDispatch(r, type) ==
    [(IF Len(r.handleTouches) > 0
      THEN DispatchEvent(r.m, EventTouch(r.m, type, r.handleTouches))
      ELSE r.m) EXCEPT !.preTouchPool = <<>>]

\* The body that _handleTouchesEnd and _handleTouchesCancel share.
HandleTouchesEndOrCancel(m, ts, type) ==
    EndOrCancelDispatch(GetSetOfTouchesEndOrCancel(m, ts), type)

\* _handleTouchesEnd(touches)
HandleTouchesEnd(m, ts) == HandleTouchesEndOrCancel(m, ts, TOUCH_END)

\* _handleTouchesCancel(touches)
HandleTouchesCancel(m, ts) == HandleTouchesEndOrCancel(m, ts, TOUCH_CANCEL)

\* ------------------------------------------------------- sample dispatchers
\* _dispatchMouseEvent with the mouse event given out before the touch is
\* handled.
DispatchMouseEventFirst(m, inputEvent) ==
    IF inputEvent.type \in {MOUSE_DOWN, MOUSE_MOVE, MOUSE_UP}
    THEN LET e == GetMouseEvent(m, inputEvent)
             t == GetTouch(DispatchEvent(e.m, e.event), inputEvent)
         IN CASE inputEvent.type = MOUSE_DOWN ->
                     HandleTouchesStart(t.m, <<t.touch>>)
              [] inputEvent.type = MOUSE_MOVE ->
                     HandleTouchesMove(t.m, <<t.touch>>)
              [] inputEvent.type = MOUSE_UP ->
                     HandleTouchesEnd(t.m, <<t.touch>>)
    ELSE IF inputEvent.type = MOUSE_WHEEL
    THEN LET e == GetMouseEvent(m, inputEvent)
         IN DispatchEvent(e.m, e.event)
    ELSE m

\* _dispatchMouseEvent(inputEvent)
DispatchMouseEvent(m, inputEvent) ==
    IF inputEvent.type \in {MOUSE_DOWN, MOUSE_MOVE, MOUSE_UP}
    THEN LET e == GetMouseEvent(m, inputEvent)
             t == GetTouch(e.m, inputEvent)
             m1 == CASE inputEvent.type = MOUSE_DOWN ->
                           HandleTouchesStart(t.m, <<t.touch>>)
                     [] inputEvent.type = MOUSE_MOVE ->
                           HandleTouchesMove(t.m, <<t.touch>>)
                     [] inputEvent.type = MOUSE_UP ->
                           HandleTouchesEnd(t.m, <<t.touch>>)
         IN DispatchEvent(m1, e.event)
    ELSE IF inputEvent.type = MOUSE_WHEEL
    THEN LET e == GetMouseEvent(m, inputEvent)
         IN DispatchEvent(e.m, e.event)
    ELSE m

\* The switch of _dispatchTouchEvent, _getTouchList having returned l
\* (lines 148-163).
TouchSwitch(l, type) ==
    CASE type = TOUCH_START -> HandleTouchesStart(l.m, l.touchList)
      [] type = TOUCH_MOVE -> HandleTouchesMove(l.m, l.touchList)
      [] type = TOUCH_END -> HandleTouchesEnd(l.m, l.touchList)
      [] type = TOUCH_CANCEL -> HandleTouchesCancel(l.m, l.touchList)
      [] OTHER -> l.m

\* _dispatchTouchEvent(inputEvent)
DispatchTouchEvent(m, inputEvent) ==
    TouchSwitch(GetTouchList(m, inputEvent), inputEvent.type)

\* _dispatchKeyboardEvent(inputEvent)
DispatchKeyboardEvent(m, inputEvent) ==
    IF inputEvent.type \in {KEY_DOWN, KEY_UP}
    THEN DispatchEvent(m, [type |-> inputEvent.type, code |-> inputEvent.code])
    ELSE m

\* _dispatchAccelerometerEvent(inputEvent)
DispatchAccelerometerEvent(m, inputEvent) ==
    IF inputEvent.type = DEVICEMOTION
    THEN DispatchEvent(m, [type |-> DEVICEMOTION, acc |-> inputEvent.acc])
    ELSE m

\* The call that the body of one of the four loops of frameDispatchEvents
\* makes for a sample of the source.
DispatchSample(m, source, inputEvent) ==
    CASE source = "mouse" -> DispatchMouseEvent(m, inputEvent)
      [] source = "touch" -> DispatchTouchEvent(m, inputEvent)
      [] source = "keyboard" -> DispatchKeyboardEvent(m, inputEvent)
      [] source = "accelerometer" -> DispatchAccelerometerEvent(m, inputEvent)

\* The phase of the touches a sample brings: a mouse button sample is a
\* pseudo-touch (lines 116-133).
Phase(source, inputEvent) ==
    CASE source = "touch" /\ inputEvent.type \in TouchTypes -> inputEvent.type
      [] source = "mouse" /\ inputEvent.type = MOUSE_DOWN -> TOUCH_START
      [] source = "mouse" /\ inputEvent.type = MOUSE_MOVE -> TOUCH_MOVE
      [] source = "mouse" /\ inputEvent.type = MOUSE_UP -> TOUCH_END
      [] OTHER -> OTHER_TYPE

\* The identifiers of the touches a sample brings to the handlers: those of
\* changedTouches (the first only when multi-touch is off), 0 for the mouse.
TouchIds(m, source, inputEvent) ==
    IF source = "mouse" THEN <<0>>
    ELSE IF source # "touch" THEN <<>>
    ELSE LET c == inputEvent.changedTouches
             n == IF m.multi \/ Len(c) = 0 THEN Len(c) ELSE 1
         IN [k \in 1 .. n |-> c[k].identifier]

\* The slots whose bit is set.
OccupiedIn(m) == {i \in Slots : BitAt(m.indexBitsUsed, i) = 1}

\* The occupied slots whose touch is older than the timeout.
StaleIn(m) ==
    {i \in OccupiedIn(m) : m.now - m.touches[i].lastModified > TOUCH_TIMEOUT}

\* The record of the Begin touches is closed for good.
Closed(m) == [m EXCEPT !.begins = [open |-> FALSE, list |-> <<>>]]

\* What the handling of a sample, which took the manager from m to m1, adds
\* to the observer's notes: begins, released, evicted.
Noted(m, m1, source, inputEvent) ==
    LET phase == Phase(source, inputEvent)
        ids == TouchIds(m, source, inputEvent)
        was == DOMAIN m.touchesIntegerDict
        is == DOMAIN m1.touchesIntegerDict
    IN IF phase = TOUCH_START
       THEN LET entries ==
                    [k \in 1 .. Len(ids) |->
                        [id |-> ids[k],
                         index |-> IF ids[k] \in is \ was
                                   THEN m1.touchesIntegerDict[ids[k]]
                                   ELSE NoIndex]]
                m2 == IF m1.begins.open
                         /\ Len(m1.begins.list) + Len(entries) <= MaxTouches
                      THEN [m1 EXCEPT !.begins.list = @ \o entries]
                      ELSE Closed(m1)
            IN [m2 EXCEPT !.released = FALSE,
                          !.evicted = (@ \cup (was \ is)) \ is]
       ELSE IF phase \in {TOUCH_END, TOUCH_CANCEL}
       THEN [Closed(m1) EXCEPT
                !.released = @ \/ m1.indexBitsUsed # m.indexBitsUsed]
       ELSE m1

\* The manager m1 that the handling of events[i] left, with the observer's
\* notes of it.
Handled(m, m1, source, inputEvent, i) ==
    [Noted(m, m1, source, inputEvent) EXCEPT !.handled =
        Append(@, [source |-> source, index |-> i,
                   upto |-> Len(m1.dispatched), own |-> Own(m1)])]

\* One of the four loops of frameDispatchEvents, from events[i] on (1-based).
\* Each sample handled is noted with the manager as its handling leaves it
\* and the number of events dispatched up to then.
RECURSIVE DispatchLoop(_, _, _, _)
DispatchLoop(m, source, events, i) ==
    IF i > Len(events) THEN m
    ELSE DispatchLoop(
             Handled(m, DispatchSample(m, source, events[i]), source,
                     events[i], i),
             source, events, i + 1)

\* frameDispatchEvents() with the loop of the touch samples first.
DispatchAllTouchFirst(m, queues) ==
    LET m1 == DispatchLoop(m, "touch", queues.touch, 1)
        m2 == DispatchLoop(m1, "mouse", queues.mouse, 1)
        m3 == DispatchLoop(m2, "keyboard", queues.keyboard, 1)
    IN DispatchLoop(m3, "accelerometer", queues.accelerometer, 1)

\* frameDispatchEvents() with a motion event given out at its end.
DispatchAllAndMotion(m, queues) ==
    LET m1 == DispatchLoop(m, "mouse", queues.mouse, 1)
        m2 == DispatchLoop(m1, "touch", queues.touch, 1)
        m3 == DispatchLoop(m2, "keyboard", queues.keyboard, 1)
    IN DispatchEvent(
           DispatchLoop(m3, "accelerometer", queues.accelerometer, 1),
           [type |-> DEVICEMOTION, acc |-> 0])

\* frameDispatchEvents(), the four polls having returned the four queues.
DispatchAll(m, queues) ==
    LET m1 == DispatchLoop(m, "mouse", queues.mouse, 1)
        m2 == DispatchLoop(m1, "touch", queues.touch, 1)
        m3 == DispatchLoop(m2, "keyboard", queues.keyboard, 1)
    IN DispatchLoop(m3, "accelerometer", queues.accelerometer, 1)

\* ------------------------------------------------------------------ inputs
\* The sequences over S of length 1 .. n.
SeqsUpTo(S, n) == UNION {[1 .. k -> S] : k \in 1 .. n}

\* The changedTouches of a sample: at most n touches at the points given,
\* no identifier twice.
ChangedTouches(ids, points, n) ==
    {c \in SeqsUpTo({[identifier |-> id, x |-> p[1], y |-> p[2]] :
                        id \in ids, p \in points}, n) :
        \A i, j \in DOMAIN c : i # j => c[i].identifier # c[j].identifier}

MouseSamplesOf(types, points) ==
    {[type |-> t, x |-> p[1], y |-> p[2]] : t \in types, p \in points}

KeyboardSamples ==
    {[type |-> t, code |-> 0] : t \in {KEY_DOWN, KEY_UP, OTHER_TYPE}}

AccelerometerSamples ==
    {[type |-> t, acc |-> 0] : t \in {DEVICEMOTION, OTHER_TYPE}}

NoQueues ==
    [mouse |-> <<>>, touch |-> <<>>, keyboard |-> <<>>, accelerometer |-> <<>>]

\* -------------------------------------------------------------- the machine
\* The manager as the handlers see it: its fields, the frame's start time,
\* the multi-touch switch, and what the pass has given out so far.
Manager ==
    [indexBitsUsed |-> indexBitsUsed,
     touchesIntegerDict |-> touchesIntegerDict,
     touches |-> touches,
     preTouchPool |-> preTouchPool,
     preTouchPoolPointer |-> preTouchPoolPointer,
     preTouchPoint |-> preTouchPoint,
     prevMousePoint |-> prevMousePoint,
     now |-> frameStartTime,
     multi |-> ENABLE_MULTI_TOUCH,
     handled |-> <<>>,
     dispatched |-> <<>>,
     logged |-> <<>>,
     begins |-> begins,
     released |-> released,
     evicted |-> evicted]

\* The manager as constructed (lines 56-69), nothing polled yet.
Constructed ==
    /\ indexBitsUsed = 0
    /\ touchesIntegerDict = <<>>
    /\ touches = <<>>
    /\ preTouchPool = <<>>
    /\ preTouchPoolPointer = 0
    /\ preTouchPoint = <<0, 0>>
    /\ prevMousePoint = <<0, 0>>
    /\ frameStartTime = 0
    /\ passDue = TRUE
    /\ polled = NoQueues
    /\ handled = <<>>
    /\ dispatched = <<>>
    /\ logged = <<>>
    /\ begins = [open |-> TRUE, list |-> <<>>]
    /\ released = FALSE
    /\ evicted = {}
    /\ before = Manager

\* Multi-touch is on, as macro.ENABLE_MULTI_TOUCH is unless the game turns
\* it off.
Init == ENABLE_MULTI_TOUCH = TRUE /\ Constructed

\* Multi-touch is on or off.
InitEither == ENABLE_MULTI_TOUCH \in BOOLEAN /\ Constructed

\* The game loop starts a frame: it stamps the start time, `elapsed` after
\* that of the last frame.  What the last pass gave out is history.
StartFrame(elapsed) ==
    /\ ~passDue
    /\ frameStartTime + elapsed <= MaxTime
    /\ frameStartTime' = frameStartTime + elapsed
    /\ passDue' = TRUE
    /\ polled' = NoQueues
    /\ before' = [Manager EXCEPT !.now = frameStartTime + elapsed]
    /\ handled' = <<>>
    /\ dispatched' = <<>>
    /\ logged' = <<>>
    /\ UNCHANGED <<indexBitsUsed, touchesIntegerDict, touches, preTouchPool,
                   preTouchPoolPointer, preTouchPoint, prevMousePoint,
                   ENABLE_MULTI_TOUCH, begins, released, evicted>>

\* The frame's call of frameDispatchEvents(), whose four polls return
\* `queues`, the samples queued since the last frame.
FrameDispatchEvents(queues) ==
    /\ passDue
    /\ passDue' = FALSE
    /\ \E m \in {DispatchAll(Manager, queues)} :
       /\ indexBitsUsed' = m.indexBitsUsed
       /\ touchesIntegerDict' = m.touchesIntegerDict
       /\ touches' = m.touches
       /\ preTouchPool' = m.preTouchPool
       /\ preTouchPoolPointer' = m.preTouchPoolPointer
       /\ preTouchPoint' = m.preTouchPoint
       /\ prevMousePoint' = m.prevMousePoint
       /\ polled' = queues
       /\ before' = Manager
       /\ handled' = m.handled
       /\ dispatched' = m.dispatched
       /\ logged' = m.logged
       /\ begins' = m.begins
       /\ released' = m.released
       /\ evicted' = m.evicted
       /\ UNCHANGED <<frameStartTime, ENABLE_MULTI_TOUCH>>

\* A frame starts, any time after the last one.
NextFrame == \E elapsed \in Times : StartFrame(elapsed)

\* A frame starts with the start time of the last one.
NextFrameAtOnce == StartFrame(0)

\* The touches of the slot specification: one per sample, all at one point.
SlotTouches == ChangedTouches(IDs, {<<MaxCoord, 0>>}, 1)

\* A frame whose only sample is a touch sample of the type.
TouchFrame(type, changed) ==
    \E c \in changed :
        FrameDispatchEvents(
            [NoQueues EXCEPT
                !.touch = <<[type |-> type, changedTouches |-> c]>>])

BeginFrame == TouchFrame(TOUCH_START, SlotTouches)

MoveFrame == TouchFrame(TOUCH_MOVE, SlotTouches)

EndFrame == TouchFrame(TOUCH_END, SlotTouches)

CancelFrame == TouchFrame(TOUCH_CANCEL, SlotTouches)

Next == NextFrame \/ BeginFrame \/ MoveFrame \/ EndFrame \/ CancelFrame

Spec == Init /\ [][Next]_vars

\* The samples of the frame specification: every type of every source; a
\* touch sample brings the touches 0 .. k - 1 for a k in 1 .. MaxChanged, all
\* at one point.
FrameTouchSamples ==
    {[type |-> t,
      changedTouches |->
          [i \in 1 .. k |-> [identifier |-> i - 1, x |-> MaxCoord, y |-> 0]]] :
        t \in TouchTypes \cup {OTHER_TYPE}, k \in 1 .. MaxChanged}

FrameMouseSamples ==
    MouseSamplesOf({MOUSE_DOWN, MOUSE_MOVE, MOUSE_UP, MOUSE_WHEEL, OTHER_TYPE},
                   {<<0, MaxCoord>>})

\* The sequences over S of length 0 .. n.
Queue(S, n) == {<<>>} \cup SeqsUpTo(S, n)

\* What the four polls may return: at most MaxQueued samples in all.
FrameQueues ==
    {q \in [mouse : Queue(FrameMouseSamples, MaxQueued),
            touch : Queue(FrameTouchSamples, MaxQueued),
            keyboard : Queue(KeyboardSamples, MaxQueued),
            accelerometer : Queue(AccelerometerSamples, MaxQueued)] :
        Len(q.mouse) + Len(q.touch) + Len(q.keyboard) + Len(q.accelerometer)
            \in 1 .. MaxQueued}

\* A frame in which samples were queued.
BusyFrame == \E q \in FrameQueues : FrameDispatchEvents(q)

\* A frame in which nothing was queued.
IdleFrame == FrameDispatchEvents(NoQueues)

NextFrames == NextFrameAtOnce \/ BusyFrame \/ IdleFrame

SpecFrames == InitEither /\ [][NextFrames]_vars

\* The touches of the position specification: one per sample, at one of two
\* points.
PointTouches == ChangedTouches(IDs, {<<0, MaxCoord>>, <<MaxCoord, 0>>}, 1)

PointBegin == TouchFrame(TOUCH_START, PointTouches)

PointMove == TouchFrame(TOUCH_MOVE, PointTouches)

PointEnd == TouchFrame(TOUCH_END, PointTouches)

PointCancel == TouchFrame(TOUCH_CANCEL, PointTouches)

\* A frame whose only sample is a touch sample of a type without a handler.
PointOther == TouchFrame(OTHER_TYPE, PointTouches)

NextPoints ==
    \/ NextFrameAtOnce
    \/ PointBegin
    \/ PointMove
    \/ PointEnd
    \/ PointCancel
    \/ PointOther

SpecPoints == Init /\ [][NextPoints]_vars

\* The samples of the mouse specification: every type, at one point that no
\* touch sample has.
MouseSamples ==
    MouseSamplesOf({MOUSE_DOWN, MOUSE_MOVE, MOUSE_UP, MOUSE_WHEEL, OTHER_TYPE},
                   {<<0, MaxCoord>>})

\* A frame in which only mouse samples were queued, at most MaxQueued.
MouseFrame ==
    \E q \in SeqsUpTo(MouseSamples, MaxQueued) :
        FrameDispatchEvents([NoQueues EXCEPT !.mouse = q])

NextMouse ==
    NextFrameAtOnce \/ MouseFrame \/ BeginFrame \/ MoveFrame \/ EndFrame
        \/ CancelFrame

SpecMouse == InitEither /\ [][NextMouse]_vars

\* ------------------------------------------------------- what the claims use
\* The identifiers in the mapping.
Tracked == DOMAIN touchesIntegerDict

\* The slots whose bit is set in the mask.
OccupiedSlots == OccupiedIn(Manager)

\* The slots that are values of the mapping.
MappedSlots == {touchesIntegerDict[id] : id \in Tracked}

\* The identifiers in the mapping when the last pass started.
TrackedBefore == DOMAIN before.touchesIntegerDict

\* The last pass polled one touch sample of one of the types, with one touch,
\* and nothing else.
OneTouchPolled(types) ==
    /\ polled.mouse = <<>>
    /\ polled.keyboard = <<>>
    /\ polled.accelerometer = <<>>
    /\ Len(polled.touch) = 1
    /\ polled.touch[1].type \in types
    /\ Len(polled.touch[1].changedTouches) = 1

\* The identifier of that touch.
PolledId == polled.touch[1].changedTouches[1].identifier

\* The lowest index in a set of slot indices.
Lowest(S) == CHOOSE i \in S : \A j \in S : i <= j

\* The manager's mask, mapping and table of touches are as the last pass
\* found them.
SlotsUntouched ==
    /\ indexBitsUsed = before.indexBitsUsed
    /\ touchesIntegerDict = before.touchesIntegerDict
    /\ touches = before.touches

\* The events of type touch that the last pass dispatched.
TouchEvents ==
    {k \in DOMAIN dispatched : dispatched[k].event.type \in TouchTypes}

\* --------------------------------------------------------------------- C1
\* C1: in every reachable state the slots marked occupied in the mask are
\* exactly the slots that are values of the identifier-to-slot mapping, and
\* there are as many set bits as entries of the mapping.
C1_MaskIsMapping ==
    /\ OccupiedSlots = MappedSlots
    /\ Cardinality(OccupiedSlots) = Cardinality(Tracked)

\* --------------------------------------------------------------------- C2
\* C2: the number of identifiers tracked at the same time, which is the
\* length of the list of active touches put into an event, never exceeds
\* the size of the slot pool.
C2_TrackedWithinPool ==
    /\ Cardinality(Tracked) <= MaxTouches
    /\ \A k \in TouchEvents :
           Len(dispatched[k].event.allTouches) <= MaxTouches

\* --------------------------------------------------------------------- C3
\* C3: with as many identifiers tracked as there are slots and no occupied
\* slot stale, a Begin for a new identifier gets no slot: no event, the
\* diagnostic 2300, and mask, mapping and table of touches unchanged.
C3_FullPoolDropsBegin ==
    ( /\ OneTouchPolled({TOUCH_START})
      /\ PolledId \notin TrackedBefore
      /\ Cardinality(TrackedBefore) = MaxTouches
      /\ StaleIn(before) = {} )
    => ( /\ dispatched = <<>>
         /\ \E k \in DOMAIN logged : logged[k].code = LogSlotExhausted
         /\ SlotsUntouched )

\* --------------------------------------------------------------------- C4
\* The Begin touches recorded so far have pairwise distinct identifiers.
DistinctBegins ==
    \A i, j \in DOMAIN begins.list :
        i # j => begins.list[i].id # begins.list[j].id

\* The k-th Begin touch was given slot k - 1.
AscendingBegins == \A k \in DOMAIN begins.list : begins.list[k].index = k - 1

\* C4: of at most MaxTouches Begin touches with distinct identifiers and no
\* End or Cancel in between, the k-th gets slot k - 1, a slot none of the
\* earlier ones got.
C4_BeginsAscending == (begins.open /\ DistinctBegins) => AscendingBegins


\* --------------------------------------------------------------------- C5
\* The last pass handled a Begin for an identifier that was not tracked, the
\* first Begin since an End or Cancel released a slot.
BeginAfterRelease ==
    /\ OneTouchPolled({TOUCH_START})
    /\ PolledId \notin TrackedBefore
    /\ before.released

\* The slots whose bit was clear when the last pass started.
ClearBefore == Slots \ OccupiedIn(before)

\* C5: that Begin is given the lowest slot whose bit was clear.
C5_LowestClear ==
    BeginAfterRelease
    => ( /\ PolledId \in Tracked
         /\ touchesIntegerDict[PolledId] = Lowest(ClearBefore) )

\* --------------------------------------------------------------------- C6
\* The last pass handled a Begin for a new identifier with every slot
\* occupied and some slot stale.
BeginReclaims ==
    /\ OneTouchPolled({TOUCH_START})
    /\ PolledId \notin TrackedBefore
    /\ OccupiedIn(before) = Slots
    /\ StaleIn(before) # {}

\* The identifier of the touch that held the lowest stale slot.
ReclaimedId == before.touches[Lowest(StaleIn(before))].id

C7_UntrackedIgnored ==
    ( /\ OneTouchPolled({TOUCH_MOVE, TOUCH_END, TOUCH_CANCEL})
      /\ PolledId \notin TrackedBefore )
    => (dispatched = <<>> /\ SlotsUntouched)

\* An End for an untracked identifier while another one is tracked.
C7_Witness ==
    /\ OneTouchPolled({TOUCH_END})
    /\ PolledId \notin TrackedBefore
    /\ TrackedBefore # {}
    /\ dispatched = <<>>

\* --------------------------------------------------------------------- C8
\* The note of the sample whose handling dispatched event k.
HandledOf(k) ==
    handled[Lowest({j \in DOMAIN handled : handled[j].upto >= k})]

\* C8: from the dispatch of an event to the end of the handling of its
\* sample the manager writes none of its mask, mapping, table of touches,
\* pool and pool pointer.
C8_NoWriteAfterDispatch ==
    \A k \in DOMAIN dispatched : dispatched[k].own = HandledOf(k).own

\* --------------------------------------------------------------------- C9
\* The index in `handled` of the sample whose handling dispatched event k.
SampleOf(k) == Lowest({j \in DOMAIN handled : handled[j].upto >= k})

\* The touch events that the handling of the j-th sample dispatched.
SampleTouchEvents(j) == {k \in TouchEvents : SampleOf(k) = j}

\* The j-th sample handled, as polled.
SampleAt(j) == polled[handled[j].source][handled[j].index]

\* The mapping as the handling of the j-th sample found it.
DictBefore(j) ==
    IF j = 1 THEN before.touchesIntegerDict
    ELSE handled[j - 1].own.touchesIntegerDict

\* The identifiers of the touches of the j-th sample that its handler acts
\* on, in the sample's order: for a Begin those it maps, for a Move, End or
\* Cancel those that were mapped.
Affected(j) ==
    LET ids == TouchIds(before, handled[j].source, SampleAt(j))
        phase == Phase(handled[j].source, SampleAt(j))
    IN IF phase = TOUCH_START
       THEN SelectSeq(ids, LAMBDA id :
                /\ id \notin DOMAIN DictBefore(j)
                /\ id \in DOMAIN handled[j].own.touchesIntegerDict)
       ELSE IF phase \in TouchTypes
       THEN SelectSeq(ids, LAMBDA id : id \in DOMAIN DictBefore(j))
       ELSE <<>>

\* The identifiers of the touches that event k carries.
CarriedBy(k) ==
    [i \in DOMAIN dispatched[k].event.touches |->
        dispatched[k].event.touches[i].id]

\* The source and the phase of touch event k.
GroupOf(k) == <<handled[SampleOf(k)].source, dispatched[k].event.type>>

PolledInOrder ==
    [i \in DOMAIN polled.mouse |-> <<"mouse", i>>]
    \o [i \in DOMAIN polled.touch |-> <<"touch", i>>]
    \o [i \in DOMAIN polled.keyboard |-> <<"keyboard", i>>]
    \o [i \in DOMAIN polled.accelerometer |-> <<"accelerometer", i>>]

\* The samples handled, as <<source, index>>, in the order of handling.
HandledInOrder ==
    [j \in DOMAIN handled |-> <<handled[j].source, handled[j].index>>]

\* The types in S among those of a sequence of samples or events, in order.
TypesIn(seq, S) ==
    SelectSeq([k \in DOMAIN seq |-> seq[k].type], LAMBDA t : t \in S)

\* The events dispatched, in order.
Events == [k \in DOMAIN dispatched |-> dispatched[k].event]

MouseTypes == {MOUSE_DOWN, MOUSE_MOVE, MOUSE_UP, MOUSE_WHEEL}

\* C10: a pass handles every sample polled, the mouse samples first, then
\* the touch, keyboard and accelerometer samples, each source in the order
\* of its queue, and the events come out in the order of their samples.
C10_SourceOrderFifo ==
    /\ HandledInOrder = PolledInOrder
    /\ \A k1, k2 \in DOMAIN dispatched :
           k1 <= k2 => SampleOf(k1) <= SampleOf(k2)
    /\ TypesIn(Events, MouseTypes) = TypesIn(polled.mouse, MouseTypes)
    /\ TypesIn(Events, {KEY_DOWN, KEY_UP})
           = TypesIn(polled.keyboard, {KEY_DOWN, KEY_UP})
    /\ TypesIn(Events, {DEVICEMOTION})
           = TypesIn(polled.accelerometer, {DEVICEMOTION})
    /\ \A k \in DOMAIN dispatched :
           /\ Events[k].type \in MouseTypes
                  => handled[SampleOf(k)].source = "mouse"
           /\ Events[k].type \in {KEY_DOWN, KEY_UP}
                  => handled[SampleOf(k)].source = "keyboard"
           /\ Events[k].type = DEVICEMOTION
                  => handled[SampleOf(k)].source = "accelerometer"

\* A pass with a mouse sample and a touch sample, each with a touch event,
\* those of the mouse sample first.
C10_Witness ==
    /\ Len(polled.mouse) = 1
    /\ Len(polled.touch) = 1
    /\ \E k1, k2 \in TouchEvents :
           /\ k1 < k2
           /\ handled[SampleOf(k1)].source = "mouse"
           /\ handled[SampleOf(k2)].source = "touch"

\* -------------------------------------------------------------------- C11
\* The point of the polled touch as the handlers see it.
PolledPoint ==
    <<polled.touch[1].changedTouches[1].x * GetViewPixelRatio,
      polled.touch[1].changedTouches[1].y * GetViewPixelRatio>>

\* The last pass handled a Move of one touch that was tracked.
TrackedMove == OneTouchPolled({TOUCH_MOVE}) /\ PolledId \in TrackedBefore

\* The last pass handled a Begin of one touch that was neither tracked nor
\* in the pool, and gave it a slot.
FirstBegin ==
    /\ OneTouchPolled({TOUCH_START})
    /\ PolledId \notin TrackedBefore
    /\ FindInPool(before.preTouchPool, PolledId, Len(before.preTouchPool)) = 0
    /\ PolledId \in Tracked

\* The only event of the last pass carries one touch, whose previous point
\* is p.
ReportsPrev(p) ==
    /\ Len(dispatched) = 1
    /\ Len(dispatched[1].event.touches) = 1
    /\ dispatched[1].event.touches[1].id = PolledId
    /\ dispatched[1].event.touches[1].point = PolledPoint
    /\ dispatched[1].event.touches[1].prevPoint = p

\* The point that the touch reported in its last Begin or Move event.
LastReported == before.touches[before.touchesIntegerDict[PolledId]].point

\* The point that the pool held for the touch when the pass started, the
\* touch's own point when it held none.
PooledBefore ==
    LET i == FindInPool(before.preTouchPool, PolledId,
                        Len(before.preTouchPool))
    IN IF i > 0 THEN before.preTouchPool[i].point ELSE PolledPoint

OneSamplePolled ==
    /\ polled.mouse = <<>>
    /\ polled.keyboard = <<>>
    /\ polled.accelerometer = <<>>
    /\ Len(polled.touch) = 1

\* The last pass recorded PoolCapacity + 1 touches with distinct
\* identifiers, those of one sample, and emptied the pool neither in
\* between nor after.
RoundRecorded ==
    /\ OneSamplePolled
    /\ ENABLE_MULTI_TOUCH
    /\ polled.touch[1].type \notin {TOUCH_END, TOUCH_CANCEL}
    /\ Len(polled.touch[1].changedTouches) = PoolCapacity + 1

\* C12: after PoolCapacity + 1 records with pairwise distinct identifiers
\* and no End or Cancel in between, the pool holds no entry for the
\* identifier of the oldest of them.
C12_OldestForgotten ==
    RoundRecorded
    => FindInPool(preTouchPool, polled.touch[1].changedTouches[1].identifier,
                  Len(preTouchPool)) = 0

\* -------------------------------------------------------------------- C13
\* The last pass recorded one touch and did not empty the pool after.
OneRecorded == OneTouchPolled({TOUCH_START, TOUCH_MOVE, OTHER_TYPE})

\* The pool's entries with the identifier of the polled touch.
EntriesOfPolled ==
    {i \in DOMAIN preTouchPool : preTouchPool[i].id = PolledId}

\* C13: right after the record of a touch, _getPreTouch for its identifier
\* returns the point just recorded, also when the identifier had been
\* recorded before.
C13_RoundTrip ==
    OneRecorded
    => ( /\ EntriesOfPolled # {}
         /\ GetPreTouch(Manager, NewTouch(0, 0, PolledId)).point
                = PolledPoint )

\* A sample that no handler takes records a touch whose identifier the pool
\* held with another point.
C13_Witness ==
    /\ OneTouchPolled({OTHER_TYPE})
    /\ PooledBefore # PolledPoint
    /\ GetPreTouch(Manager, NewTouch(0, 0, PolledId)).point = PolledPoint
    /\ Len(preTouchPool) > 1

\* -------------------------------------------------------------------- C14
\* The last pass found the four queues empty.
IdlePass == ~passDue /\ polled = NoQueues

\* C14: a pass that finds the four queues empty gives out no event and
\* leaves mask, mapping, table of touches, pool and pool pointer as they
\* were, so any number of such passes leaves them so.
C14_IdlePassNoEffect ==
    IdlePass
    => ( /\ dispatched = <<>>
         /\ logged = <<>>
         /\ Own(Manager) = Own(before)
         /\ preTouchPoint = before.preTouchPoint
         /\ prevMousePoint = before.prevMousePoint )

\* An idle pass with a touch tracked and the pool not empty.
C14_Witness ==
    /\ IdlePass
    /\ Tracked # {}
    /\ preTouchPool # <<>>

\* -------------------------------------------------------------------- C15
\* The identifiers of the touches in the full list of event k.
AllCarriedBy(k) ==
    [i \in DOMAIN dispatched[k].event.allTouches |->
        dispatched[k].event.allTouches[i].id]

\* The identifiers in the mapping when event k was dispatched.
TrackedAt(k) == DOMAIN dispatched[k].own.touchesIntegerDict

\* A sequence without two equal elements.
NoDuplicates(seq) ==
    \A i, j \in DOMAIN seq : seq[i] = seq[j] => i = j

\* C15: every touch event carries touches of its sample; with multi-touch
\* enabled its full list has exactly one entry for each identifier tracked
\* when the event is dispatched and no entry twice, and with multi-touch
\* disabled its full list is the list of changed touches.
C15_FullListIsTracked ==
    \A k \in TouchEvents :
        /\ \A i \in DOMAIN CarriedBy(k) :
               \E n \in DOMAIN TouchIds(before, handled[SampleOf(k)].source,
                                        SampleAt(SampleOf(k))) :
                   TouchIds(before, handled[SampleOf(k)].source,
                            SampleAt(SampleOf(k)))[n] = CarriedBy(k)[i]
        /\ IF ENABLE_MULTI_TOUCH
           THEN /\ NoDuplicates(AllCarriedBy(k))
                /\ {AllCarriedBy(k)[i] : i \in DOMAIN AllCarriedBy(k)}
                       = TrackedAt(k)
           ELSE dispatched[k].event.allTouches = dispatched[k].event.touches

\* -------------------------------------------------------------------- C16
\* C16: a Begin sample that finds a slot with its bit clear removes no
\* identifier from the mapping, stale or not.
C16_ReclaimOnlyWhenFull ==
    (OneTouchPolled({TOUCH_START}) /\ OccupiedIn(before) # Slots)
        => TrackedBefore \subseteq Tracked

\* -------------------------------------------------------------------- C17
\* C17: in every reachable state no two identifiers are mapped to one slot,
\* and the touch in the slot of a mapped identifier has that identifier.
C17_MappingInjective ==
    /\ \A x, y \in Tracked :
           touchesIntegerDict[x] = touchesIntegerDict[y] => x = y
    /\ \A x \in Tracked : touches[touchesIntegerDict[x]].id = x

\* -------------------------------------------------------------------- C18
\* The last pass recorded one touch whose identifier the pool did not hold,
\* the pool holding PoolCapacity entries or more.
NewRecordedWhenFull ==
    /\ OneRecorded
    /\ Len(before.preTouchPool) >= PoolCapacity
    /\ FindInPool(before.preTouchPool, PolledId,
                  Len(before.preTouchPool)) = 0

\* C18: the pool never holds more than PoolCapacity entries, and the record
\* of a new identifier in a full pool takes the place of an entry of the
\* pool (of the oldest one: with PoolCapacity = 1 the only one).
C18_PoolWithinCapacity ==
    /\ Len(preTouchPool) <= PoolCapacity
    /\ NewRecordedWhenFull
           => \E i \in DOMAIN before.preTouchPool :
                  preTouchPool =
                      [before.preTouchPool EXCEPT
                          ![i] = [id |-> PolledId, point |-> PolledPoint]]

\* -------------------------------------------------------------------- C19
\* The last pass handled one End or Cancel sample of one touch.
OneEnded == OneTouchPolled({TOUCH_END, TOUCH_CANCEL})

\* The entries that the pool held for other identifiers than the polled
\* one when the last pass started.
OthersBefore ==
    {i \in DOMAIN before.preTouchPool :
        before.preTouchPool[i].id # PolledId}

\* The pool still holds the i-th entry it held when the last pass started.
StillPooled(i) ==
    \E j \in DOMAIN preTouchPool : preTouchPool[j] = before.preTouchPool[i]

\* The record of the polled touch overwrote the i-th entry at the cursor.
Overwritten(i) ==
    /\ FindInPool(before.preTouchPool, PolledId,
                  Len(before.preTouchPool)) = 0
    /\ Len(before.preTouchPool) > PoolCapacity
    /\ i = before.preTouchPoolPointer + 1

CursorAfterRecord ==
    IF \E i \in OthersBefore : Overwritten(i)
    THEN (before.preTouchPoolPointer + 1) % PoolCapacity
    ELSE before.preTouchPoolPointer

BeginOfTracked ==
    OneTouchPolled({TOUCH_START}) /\ PolledId \in TrackedBefore

\* The slots other than the one of the polled identifier at the start of
\* the last pass.
OtherSlots == Slots \ {before.touchesIntegerDict[PolledId]}

\* C20: a Begin for an identifier that is already mapped dispatches no
\* event and leaves the mask, the mapping and the table of touches (slot,
\* point and previous point of the existing touch) as they were.
C20_BeginOfTrackedIgnored ==
    BeginOfTracked => (dispatched = <<>> /\ logged = <<>> /\ SlotsUntouched)

\* Such a Begin in a later frame than the last change of the existing
\* touch, while another slot was stale.
C20_Witness ==
    /\ BeginOfTracked
    /\ OtherSlots \cap StaleIn(before) # {}
    /\ before.touches[before.touchesIntegerDict[PolledId]].lastModified
           < before.now
    /\ dispatched = <<>>

\* -------------------------------------------------------------------- C21
\* The mouse samples of the four types among the samples handled.
MouseHandled ==
    {j \in DOMAIN handled :
        handled[j].source = "mouse" /\ SampleAt(j).type \in MouseTypes}

\* The events that the handling of the j-th sample dispatched.
EventsOf(j) ==
    {k \in DOMAIN dispatched :
        /\ k <= handled[j].upto
        /\ j > 1 => k > handled[j - 1].upto}

\* The touch sample that brings the touch of mouse sample s: identifier 0,
\* the point and the phase of s.
AsTouchSample(s) ==
    [type |-> Phase("mouse", s),
     changedTouches |-> <<[x |-> s.x, y |-> s.y, identifier |-> 0]>>]

\* The types and identifiers of a sequence of dispatched touch events.
Carried(events) ==
    [k \in DOMAIN events |->
        <<events[k].event.type,
          [i \in DOMAIN events[k].event.touches |->
              events[k].event.touches[i].id]>>]

\* The handling of mouse sample j dispatched what the handling of its touch
\* sample dispatches, then the mouse event, and left the mask and the
\* mapping as that handling leaves them; asTouch is the manager after the
\* touch sample, handled in the state the pass started in.
SameAsTouch(j, asTouch) ==
    /\ Carried(SubSeq(dispatched, 1, handled[j].upto - 1))
           = Carried(asTouch.dispatched)
    /\ handled[j].own.indexBitsUsed = asTouch.indexBitsUsed
    /\ handled[j].own.touchesIntegerDict = asTouch.touchesIntegerDict

\* C21: the handling of every mouse down, move, up or wheel sample
\* dispatches exactly one mouse event, of the sample's type, as its last
\* event; a wheel sample dispatches nothing else; a down, move or up sample
\* dispatches before it at most one touch event, of the phase of the sample
\* and of identifier 0, and acts on the mask and the mapping as the Begin,
\* Move or End of a touch sample of identifier 0 does.
C21_OneMouseEventLast ==
    \A j \in MouseHandled :
        /\ handled[j].upto \in EventsOf(j)
        /\ dispatched[handled[j].upto].event.type = SampleAt(j).type
        /\ \A k \in EventsOf(j) \ {handled[j].upto} :
               /\ SampleAt(j).type # MOUSE_WHEEL
               /\ dispatched[k].event.type = Phase("mouse", SampleAt(j))
               /\ CarriedBy(k) = <<0>>
        /\ Cardinality(EventsOf(j)) <= 2
        /\ (j = 1 /\ SampleAt(j).type # MOUSE_WHEEL)
               => SameAsTouch(j, DispatchTouchEvent(
                                     before, AsTouchSample(SampleAt(j))))

\* A pass handled a mouse up of the tracked mouse, which gave out a touch
\* event and then the mouse event, and then a mouse move of the mouse no
\* longer tracked, which gave out the mouse event alone.
C21_Witness ==
    /\ Len(polled.mouse) = 2
    /\ polled.mouse[1].type = MOUSE_UP
    /\ polled.mouse[2].type = MOUSE_MOVE
    /\ 0 \in TrackedBefore
    /\ Len(dispatched) = 3
    /\ dispatched[1].event.type = TOUCH_END
    /\ dispatched[2].event.type = MOUSE_UP
    /\ dispatched[3].event.type = MOUSE_MOVE
====
